---- MODULE Spec2Model ----
\* Model of graphic_lcd.py: the LCD class (a threading.Thread) that paces bytes
\* to a serial display through a bounded Queue, and its command encoders.
EXTENDS Integers, Sequences, FiniteSets, TLC

\* ---------------------------------------------------------------- bounds
MaxQuantum == 2
MaxHeartbeat == 1
MaxLen == 2
MaxCalls == 2
MaxEncCalls == 1
MaxLiveCalls == 1
MaxStops == 2

\* ------------------------------------------------------ program constants
Width == 128
Height == 64
Marker == 124
OpBacklight == 2
OpClear == 0
OpSetX == 24
OpSetY == 25
MaxPercent == 100
CellHeight == 8
CellWidth == 6
MaxChr == 255
OpDemo == 4
OpReverse == 18
OpPixel == 16
OpLine == 12
OpBox == 15
OpCircle == 3
OpErase == 5
Space == 32
InitSpaces == 8

\* The application's main thread, which issues up to the call budget, and a
\* second thread, which issues a single call concurrently.
MainThread == "p1"
Producers == {"p1", "p2"}
\* The threads that call start(): the application's main thread, and a second
\* one whose call can overlap the first. The thread a call spawns is named
\* after its caller.
MainCaller == "c1"
Callers == {"c1", "c2"}
Quanta == 0..MaxQuantum
Heartbeats == {0, MaxHeartbeat}

VARIABLES
    buffer_size,  \* self.buffer_size
    heartbeat,    \* self.heartbeat
    queue,        \* self.__buffer: the bytes resident in the Queue, oldest first
    admitted,     \* every byte put() has admitted to the Queue, in admission order
    transport,    \* bytes handed to self.__comm.write, oldest first
    stopFlag,     \* self.__stop
    started,      \* the Thread's started event: set by a spawned thread before run()
    pcS,          \* position of each caller inside Thread.start()
    startRes,     \* outcome of each caller's last start() call
    limbo,        \* threading._limbo holds this Thread object
    stops,        \* stop() calls counted so far, up to MaxStops, where a run counts them
    pc,           \* per spawned thread, its position in the bootstrap and in run()
    x,            \* per thread, iterations of "for x in xrange(buffer_size)" completed
    d,            \* per thread, the byte run() holds between get() and write()
    elapsed,      \* per thread, time.time() - start, saturating at ClockCap
    sleepLeft,    \* per thread, time left of time.sleep(next_beat)
    pcP,          \* position of each producer thread
    rest,         \* bytes of the current send() still to be delivered
    subs,         \* calls of the current encoder still to be made
    log,          \* per producer, the data of every send() call entered so far
    base,         \* per producer, Len(log) when its current API call was issued
    call,         \* per producer, the API call it issued last
    result,       \* outcome of each producer's last API call
    callsLeft     \* API calls the producers may still issue

vars == <<buffer_size, heartbeat, queue, admitted, transport, stopFlag, started, pcS,
          startRes, limbo, stops, pc, x, d, elapsed, sleepLeft, pcP, rest, subs, log, base,
          call, result, callsLeft>>

chanVars == <<buffer_size, heartbeat>>
lifeVars == <<pcS, startRes, limbo, stops>>
loopVars == <<pc, x, d, elapsed, sleepLeft>>
prodVars == <<pcP, rest, subs, log, base, call, result, callsLeft>>

\* time.time() - start is only ever compared with heartbeat, so the clock
\* saturates one tick above the channel's heartbeat.
ClockCap == heartbeat + 1

NoByte == [b |-> -1, p |-> "none", c |-> 0, i |-> 0]

\* ------------------------------------------------------------- geometry
Rows == Height \div CellHeight
Cols == Width \div CellWidth

\* ------------------------------------------------------------- encoders
\* chr(n): a one-character string, ValueError outside range(256).
ChrOk(n) == n \in 0..MaxChr
Chr(n) == <<n % (MaxChr + 1)>>

Raise == [ok |-> FALSE, data |-> <<>>]
Send(data) == [ok |-> TRUE, data |-> data]

clear == Send(<<Marker, OpClear>>)

demo == Send(<<Marker, OpDemo>>)

reverse == Send(<<Marker, OpReverse>>)

set_backlight_no_floor(percent) ==
    IF percent > MaxPercent THEN Raise
    ELSE Send(<<Marker, OpBacklight>> \o Chr(percent))

set_backlight(percent) ==
    IF percent < 0 \/ percent > MaxPercent THEN Raise
    ELSE Send(<<Marker, OpBacklight>> \o Chr(percent))

set_pos_x(v) ==
    IF v < 0 \/ v > Width THEN Raise
    ELSE IF ~ChrOk(v) THEN Raise
    ELSE Send(<<Marker, OpSetX>> \o Chr(v))

set_pos_y(v) ==
    IF v < 0 \/ v > Height THEN Raise
    ELSE IF ~ChrOk(v) THEN Raise
    ELSE Send(<<Marker, OpSetY>> \o Chr(v))

set_row(r) ==
    IF r < 0 \/ r >= Rows THEN Raise
    ELSE set_pos_y(((Rows - r) * CellHeight) - 1)

set_column(c) ==
    IF c < 0 \/ c >= Cols THEN Raise
    ELSE set_pos_x(c * CellWidth)

\* int(draw) of a boolean
IntOf(draw) == IF draw THEN 1 ELSE 0

\* "|" + opcode + chr(a) + chr(b) + ...: chr raises ValueError before send()
\* is called when an argument is outside range(256)
Command(op, args) ==
    IF \E k \in 1..Len(args) : ~ChrOk(args[k]) THEN Raise
    ELSE Send(<<Marker, op>> \o [k \in 1..Len(args) |-> Chr(args[k])[1]])

pixel(px, py, draw) == Command(OpPixel, <<px, py, IntOf(draw)>>)

line(x1, y1, x2, y2, draw) == Command(OpLine, <<x1, y1, x2, y2, IntOf(draw)>>)

\* box clearing is disabled: draw is not sent
box(x1, y1, x2, y2, draw) == Command(OpBox, <<x1, y1, x2, y2>>)

circle(cx, cy, r, draw) == Command(OpCircle, <<cx, cy, r, IntOf(draw)>>)

erase(x1, y1, x2, y2) == Command(OpErase, <<x1, y1, x2, y2>>)

\* One primitive call: validation, then the data it passes to send().
Exec(prim) ==
    CASE prim.f = "send" -> Send(prim.data)
      [] prim.f = "clear" -> clear
      [] prim.f = "set_backlight" -> set_backlight(prim.v)
      [] prim.f = "set_pos_x" -> set_pos_x(prim.v)
      [] prim.f = "set_pos_y" -> set_pos_y(prim.v)
      [] prim.f = "set_row" -> set_row(prim.v)
      [] prim.f = "set_column" -> set_column(prim.v)
      [] prim.f = "demo" -> demo
      [] prim.f = "reverse" -> reverse
      [] prim.f = "pixel" -> pixel(prim.args[1], prim.args[2], prim.draw)
      [] prim.f = "line" ->
             line(prim.args[1], prim.args[2], prim.args[3], prim.args[4], prim.draw)
      [] prim.f = "box" ->
             box(prim.args[1], prim.args[2], prim.args[3], prim.args[4], prim.draw)
      [] prim.f = "circle" -> circle(prim.args[1], prim.args[2], prim.args[3], prim.draw)
      [] prim.f = "erase" -> erase(prim.args[1], prim.args[2], prim.args[3], prim.args[4])

\* A primitive call as a record: its name, its one numeric argument (v), the
\* data of a raw send, the coordinates of a drawing call and its draw flag.
Prim(f, v) == [f |-> f, v |-> v, data |-> <<>>, args |-> <<>>, draw |-> TRUE]
Raw(data) == [f |-> "send", v |-> 0, data |-> data, args |-> <<>>, draw |-> TRUE]
Drawing(f, args, draw) == [f |-> f, v |-> 0, data |-> <<>>, args |-> args, draw |-> draw]

set_pixel_position(px, py) == <<Prim("set_pos_x", px), Prim("set_pos_y", py)>>
set_char_position(row, column) == <<Prim("set_row", row), Prim("set_column", column)>>
init_display ==
    <<Raw([k \in 1..InitSpaces |-> Space]), Prim("set_backlight", 0), Prim("clear", 0)>>

\* ------------------------------------------------------------- inputs
Text(n) == [k \in 1..n |-> 64 + k]
Datas == {Text(n) : n \in {1, MaxLen}}
RawCalls == {<<Raw(t)>> : t \in Datas}

Percents == {-1, 0, MaxPercent, MaxPercent + 1}
PixelXs == {-1, Width}
PixelYs == {Height, Height + 1}
CharRows == {0, Rows}
CharCols == {Cols - 1, Cols}
DrawCalls ==
    {<<Drawing("pixel", <<px, Height - 1>>, dr)>> : px \in {0, MaxChr + 1}, dr \in BOOLEAN}
    \cup {<<Drawing("line", <<0, 0, Width - 1, Height - 1>>, TRUE)>>}
    \cup {<<Drawing("box", <<45, 10, 46, 11>>, dr)>> : dr \in BOOLEAN}
    \cup {<<Drawing("circle", <<Width \div 2, Height \div 2, r>>, FALSE)>> : r \in {-1, 10}}
    \cup {<<Drawing("erase", <<0, 0, Width - 1, Height - 1>>, TRUE)>>}
EncoderCalls ==
    {<<Prim("clear", 0)>>, <<Prim("demo", 0)>>, <<Prim("reverse", 0)>>, init_display}
    \cup DrawCalls
    \cup {<<Prim("set_backlight", v)>> : v \in Percents}
    \cup {set_pixel_position(px, py) : px \in PixelXs, py \in PixelYs}
    \cup {set_char_position(r, c) : r \in CharRows, c \in CharCols}

\* every character cell of the screen, and every percentage from one below
\* the range to one above it
CharPositionCalls == {set_char_position(r, c) : r \in 0..(Rows - 1), c \in 0..(Cols - 1)}
BacklightCalls == {<<Prim("set_backlight", v)>> : v \in (-1)..(MaxPercent + 1)}

\* The data of each send() an API call makes when nothing stops it.
RECURSIVE Emitted(_)
Emitted(prims) ==
    IF prims = <<>> THEN <<>>
    ELSE LET r == Exec(Head(prims)) IN
         IF ~r.ok THEN <<>> ELSE <<r.data>> \o Emitted(Tail(prims))

\* ------------------------------------------------------------- the queue
\* Queue.Queue(maxsize): put() blocks while maxsize > 0 and qsize() == maxsize.
CanPutOneMore == Len(queue) <= buffer_size
CanPutAlways == TRUE
CanPut == Len(queue) < buffer_size

BufferedAlways == buffer_size >= 0
BufferedAboveOne == buffer_size > 1
Buffered == buffer_size > 0

\* ------------------------------------------------------------- producers
Tag(p, byte, c, i) == [b |-> byte, p |-> p, c |-> c, i |-> i]

\* Run the pending primitive calls of producer p up to the next point where
\* send() has data to deliver, an exception is raised, or the API call returns.
RECURSIVE Enter(_, _)
Enter(prims, lg) ==
    IF prims = <<>>
    THEN [pc |-> "idle", res |-> "ok", rest |-> <<>>, subs |-> <<>>, log |-> lg]
    ELSE LET r == Exec(Head(prims)) IN
         IF ~r.ok
         THEN [pc |-> "idle", res |-> "ValueError", rest |-> <<>>, subs |-> <<>>, log |-> lg]
         ELSE IF ~Buffered
         THEN [pc |-> "write", res |-> "none", rest |-> r.data, subs |-> Tail(prims),
               log |-> Append(lg, r.data)]
         ELSE IF r.data = <<>>
         THEN Enter(Tail(prims), Append(lg, r.data))
         ELSE [pc |-> "put", res |-> "none", rest |-> r.data, subs |-> Tail(prims),
               log |-> Append(lg, r.data)]

Become(p, e) ==
    /\ pcP' = [pcP EXCEPT ![p] = e.pc]
    /\ result' = [result EXCEPT ![p] = e.res]
    /\ rest' = [rest EXCEPT ![p] = e.rest]
    /\ subs' = [subs EXCEPT ![p] = e.subs]
    /\ log' = [log EXCEPT ![p] = e.log]

Call(p, prims) ==
    /\ pcP[p] = "idle"
    /\ callsLeft > 0
    /\ p # MainThread => result[p] = "none"
    /\ callsLeft' = callsLeft - 1
    /\ base' = [base EXCEPT ![p] = Len(log[p])]
    /\ call' = [call EXCEPT ![p] = prims]
    /\ Become(p, Enter(prims, log[p]))
    /\ UNCHANGED <<chanVars, lifeVars, admitted, queue, transport, stopFlag, started, loopVars>>

\* send(data) / type(text) called directly
CallSend(p) == \E prims \in RawCalls : Call(p, prims)

\* an encoder called
CallEncoder(p) == \E prims \in EncoderCalls : Call(p, prims)

CallCharPosition(p) == \E prims \in CharPositionCalls : Call(p, prims)

CallBacklight(p) == \E prims \in BacklightCalls : Call(p, prims)

\* self.__buffer.put(x) for the next byte of data
Put(p) ==
    /\ pcP[p] = "put"
    /\ CanPut
    /\ LET c == Len(log[p])
           i == Len(log[p][c]) - Len(rest[p]) + 1
       IN /\ queue' = Append(queue, Tag(p, Head(rest[p]), c, i))
          /\ admitted' = Append(admitted, Tag(p, Head(rest[p]), c, i))
    /\ IF Len(rest[p]) > 1
       THEN /\ rest' = [rest EXCEPT ![p] = Tail(@)]
            /\ UNCHANGED <<pcP, subs, log, result>>
       ELSE Become(p, Enter(subs[p], log[p]))
    /\ UNCHANGED <<chanVars, lifeVars, transport, stopFlag, started, loopVars, base, call,
                   callsLeft>>

\* self.__comm.write(data) from send() when buffer_size == 0
BypassWrite(p) ==
    /\ pcP[p] = "write"
    /\ LET c == Len(log[p])
       IN transport' = transport \o
              [i \in 1..Len(rest[p]) |-> [byte |-> Tag(p, rest[p][i], c, i), by |-> "send"]]
    /\ Become(p, Enter(subs[p], log[p]))
    /\ UNCHANGED <<chanVars, lifeVars, admitted, queue, stopFlag, started, loopVars, base,
                   call, callsLeft>>

\* the same write raising: the exception leaves send() and the encoder
BypassFail(p) ==
    /\ pcP[p] = "write"
    /\ Become(p, [pc |-> "idle", res |-> "TransportError", rest |-> <<>>,
                  subs |-> <<>>, log |-> log[p]])
    /\ UNCHANGED <<chanVars, lifeVars, admitted, queue, transport, stopFlag, started, loopVars,
                   base, call, callsLeft>>

\* ------------------------------------------------------------- lifecycle
\* lcd.start() is threading.Thread.start(): it raises RuntimeError when the
\* started event is set, otherwise spawns a thread and waits for the event; the
\* spawned thread sets the event and then calls run(). start() registers the
\* object in threading._limbo before the spawn and the spawned thread removes
\* it after setting the event. The test, the registration, the spawn, the
\* setting of the event and the removal are separate steps. The wait reads
\* only the event, which is never cleared: a caller that has spawned has
\* returned from start() as soon as the event is set, and can call start()
\* again from then on.
StartReturned(c) == pcS[c] = "spawned" /\ started

\* if self.__started.is_set(): raise RuntimeError
StartCheck(c) ==
    /\ pcS[c] = "idle" \/ StartReturned(c)
    /\ IF started
       THEN /\ startRes' = [startRes EXCEPT ![c] = "RuntimeError"]
            /\ UNCHANGED pcS
       ELSE /\ pcS' = [pcS EXCEPT ![c] = "register"]
            /\ UNCHANGED startRes
    /\ UNCHANGED <<chanVars, limbo, stops, admitted, queue, transport, stopFlag, started, pc,
                   x, d, elapsed, sleepLeft, prodVars>>

\* with _active_limbo_lock: _limbo[self] = self
StartRegister(c) ==
    /\ pcS[c] = "register"
    /\ pcS' = [pcS EXCEPT ![c] = "spawn"]
    /\ limbo' = TRUE
    /\ UNCHANGED <<chanVars, startRes, stops, admitted, queue, transport, stopFlag, started,
                   loopVars, prodVars>>

\* _start_new_thread(self.__bootstrap, ())
StartSpawn(c) ==
    /\ pcS[c] = "spawn"
    /\ pcS' = [pcS EXCEPT ![c] = "spawned"]
    /\ pc' = [pc EXCEPT ![c] = "boot"]
    /\ UNCHANGED <<chanVars, startRes, limbo, stops, admitted, queue, transport, stopFlag,
                   started, x, d, elapsed, sleepLeft, prodVars>>

\* a start() call of caller c
Start(c) == StartCheck(c) \/ StartRegister(c) \/ StartSpawn(c)

\* the one start() call of a caller that calls it once
StartOnce(c) == (pcS[c] = "idle" /\ StartCheck(c)) \/ StartRegister(c) \/ StartSpawn(c)

\* the spawned thread: self.__started.set()
BootstrapSet(t) ==
    /\ pc[t] = "boot"
    /\ started' = TRUE
    /\ pc' = [pc EXCEPT ![t] = "del"]
    /\ UNCHANGED <<chanVars, lifeVars, admitted, queue, transport, stopFlag, x, d, elapsed,
                   sleepLeft, prodVars>>

\* the spawned thread: with _active_limbo_lock: del _limbo[self], then
\* self.run(); the del raises KeyError, and run() is never called, when another
\* spawned thread of this object has emptied _limbo since the spawn
BootstrapDel(t) ==
    /\ pc[t] = "del"
    /\ limbo' = FALSE
    /\ pc' = [pc EXCEPT ![t] = IF limbo THEN "run" ELSE "KeyError"]
    /\ UNCHANGED <<chanVars, pcS, startRes, stops, admitted, queue, transport, stopFlag,
                   started, x, d, elapsed, sleepLeft, prodVars>>

\* __bootstrap_inner up to the call of run()
Bootstrap(t) == BootstrapSet(t) \/ BootstrapDel(t)

\* self.__stop = True
stopToggles ==
    /\ stopFlag' = ~stopFlag
    /\ UNCHANGED <<chanVars, pcS, startRes, limbo, admitted, queue, transport, started,
                   loopVars, prodVars>>

stop ==
    /\ stopFlag' = TRUE
    /\ UNCHANGED <<chanVars, pcS, startRes, limbo, admitted, queue, transport, started,
                   loopVars, prodVars>>

\* stop() in a run that does not count the calls, and in one that does
StopCall == stop /\ UNCHANGED stops
CountedStop == stop /\ stops' = IF stops < MaxStops THEN stops + 1 ELSE stops

\* ------------------------------------------------------------- run()
\* if(self.buffer_size == 0): return
RunEnter(t) ==
    /\ pc[t] = "run"
    /\ pc' = [pc EXCEPT ![t] = IF Buffered THEN "top" ELSE "done"]
    /\ UNCHANGED <<chanVars, lifeVars, admitted, queue, transport, stopFlag, started, x, d,
                   elapsed, sleepLeft, prodVars>>

\* start = time.time(), then the first iteration of the for loop
PassStart(t) ==
    /\ pc[t] = "top"
    /\ elapsed' = [elapsed EXCEPT ![t] = 0]
    /\ x' = [x EXCEPT ![t] = 0]
    /\ pc' = [pc EXCEPT ![t] = IF 0 < buffer_size THEN "get" ELSE "beat"]
    /\ UNCHANGED <<chanVars, lifeVars, admitted, queue, transport, stopFlag, started, d,
                   sleepLeft, prodVars>>

\* d = self.__buffer.get(timeout=0.5) returning the oldest byte
DequeueSkipping(q) == [item |-> Head(q), left |-> IF Len(q) > 1 THEN Tail(Tail(q)) ELSE <<>>]
DequeueNewest(q) == [item |-> q[Len(q)], left |-> SubSeq(q, 1, Len(q) - 1)]
Dequeue(q) == [item |-> Head(q), left |-> Tail(q)]

GetItem(t) ==
    /\ pc[t] = "get"
    /\ queue # <<>>
    /\ d' = [d EXCEPT ![t] = Dequeue(queue).item]
    /\ queue' = Dequeue(queue).left
    /\ pc' = [pc EXCEPT ![t] = "write"]
    /\ UNCHANGED <<chanVars, lifeVars, admitted, transport, stopFlag, started, x, elapsed,
                   sleepLeft, prodVars>>

\* self.__buffer.get(timeout=0.5) raising Queue.Empty: the queue was empty
\* when the wait ran out; the queue's lock is released before the handler runs
GetTimeout(t) ==
    /\ pc[t] = "get"
    /\ queue = <<>>
    /\ pc' = [pc EXCEPT ![t] = "empty"]
    /\ UNCHANGED <<chanVars, lifeVars, admitted, queue, transport, stopFlag, started, x, d,
                   elapsed, sleepLeft, prodVars>>

\* except Queue.Empty: return if self.__stop, else break
OnEmpty == IF stopFlag THEN "done" ELSE "beat"

GetEmpty(t) ==
    /\ pc[t] = "empty"
    /\ pc' = [pc EXCEPT ![t] = OnEmpty]
    /\ UNCHANGED <<chanVars, lifeVars, admitted, queue, transport, stopFlag, started, x, d,
                   elapsed, sleepLeft, prodVars>>

\* the for loop goes on while x < buffer_size
AfterWrite(n) == IF n < buffer_size THEN "get" ELSE "beat"

\* self.__comm.write(d)
WriteOk(t) ==
    /\ pc[t] = "write"
    /\ transport' = Append(transport, [byte |-> d[t], by |-> "run"])
    /\ d' = [d EXCEPT ![t] = NoByte]
    /\ x' = [x EXCEPT ![t] = x[t] + 1]
    /\ pc' = [pc EXCEPT ![t] = AfterWrite(x[t] + 1)]
    /\ UNCHANGED <<chanVars, lifeVars, admitted, queue, stopFlag, started, elapsed, sleepLeft,
                   prodVars>>

\* self.__comm.write(d) raising: nothing in run() catches it, the thread dies
WriteFail(t) ==
    /\ pc[t] = "write"
    /\ pc' = [pc EXCEPT ![t] = "crashed"]
    /\ d' = [d EXCEPT ![t] = NoByte]
    /\ UNCHANGED <<chanVars, lifeVars, admitted, queue, transport, stopFlag, started, x,
                   elapsed, sleepLeft, prodVars>>

\* next_beat = self.heartbeat - (time.time() - start)
NextBeatShort(t) == heartbeat - elapsed[t] - 1
NextBeat(t) == heartbeat - elapsed[t]

Beat(t) ==
    /\ pc[t] = "beat"
    /\ IF NextBeat(t) > 0
       THEN /\ pc' = [pc EXCEPT ![t] = "sleep"]
            /\ sleepLeft' = [sleepLeft EXCEPT ![t] = NextBeat(t)]
       ELSE /\ pc' = [pc EXCEPT ![t] = "top"]
            /\ sleepLeft' = [sleepLeft EXCEPT ![t] = 0]
    /\ UNCHANGED <<chanVars, lifeVars, admitted, queue, transport, stopFlag, started, x, d,
                   elapsed, prodVars>>

\* time.sleep(next_beat) returning
Wake(t) ==
    /\ pc[t] = "sleep"
    /\ sleepLeft[t] = 0
    /\ pc' = [pc EXCEPT ![t] = "top"]
    /\ UNCHANGED <<chanVars, lifeVars, admitted, queue, transport, stopFlag, started, x, d,
                   elapsed, sleepLeft, prodVars>>

\* one unit of time passes for every thread that is inside a pass or asleep
InPass(t) == pc[t] \in {"get", "empty", "write", "beat", "sleep"}

Tick ==
    /\ \E t \in Callers : InPass(t) /\ elapsed[t] < ClockCap
    /\ elapsed' = [t \in Callers |->
                      IF InPass(t) /\ elapsed[t] < ClockCap THEN elapsed[t] + 1 ELSE elapsed[t]]
    /\ sleepLeft' = [t \in Callers |->
                        IF InPass(t) /\ sleepLeft[t] > 0 THEN sleepLeft[t] - 1 ELSE sleepLeft[t]]
    /\ UNCHANGED <<chanVars, lifeVars, admitted, queue, transport, stopFlag, started, pc, x, d,
                   prodVars>>

\* the steps of a spawned thread
Loop ==
    \E t \in Callers :
        \/ Bootstrap(t)
        \/ RunEnter(t)
        \/ PassStart(t)
        \/ GetItem(t)
        \/ GetTimeout(t)
        \/ GetEmpty(t)
        \/ WriteOk(t)
        \/ Beat(t)
        \/ Wake(t)

\* ------------------------------------------------------------- specifications
\* LCD.__init__
Construct(calls) ==
    /\ buffer_size \in Quanta
    /\ heartbeat \in Heartbeats
    /\ queue = <<>>
    /\ admitted = <<>>
    /\ transport = <<>>
    /\ stopFlag = FALSE
    /\ started = FALSE
    /\ pcS = [c \in Callers |-> "idle"]
    /\ startRes = [c \in Callers |-> "none"]
    /\ limbo = FALSE
    /\ stops = 0
    /\ pc = [t \in Callers |-> "new"]
    /\ x = [t \in Callers |-> 0]
    /\ d = [t \in Callers |-> NoByte]
    /\ elapsed = [t \in Callers |-> 0]
    /\ sleepLeft = [t \in Callers |-> 0]
    /\ pcP = [p \in Producers |-> "idle"]
    /\ rest = [p \in Producers |-> <<>>]
    /\ subs = [p \in Producers |-> <<>>]
    /\ log = [p \in Producers |-> <<>>]
    /\ base = [p \in Producers |-> 0]
    /\ call = [p \in Producers |-> <<>>]
    /\ result = [p \in Producers |-> "none"]
    /\ callsLeft = calls

\* Two producers sending, start() called once by the main thread.
Init == Construct(MaxCalls)

Next ==
    \/ StartOnce(MainCaller)
    \/ StopCall
    \/ \E p \in Producers : CallSend(p)
    \/ \E p \in Producers : Put(p)
    \/ \E p \in Producers : BypassWrite(p)
    \/ \E p \in Producers : BypassFail(p)
    \/ Loop
    \/ \E t \in Callers : WriteFail(t)
    \/ Tick

Spec == Init /\ [][Next]_vars

\* The encoders, called by the main thread instead of send().
InitEnc == Construct(MaxEncCalls)

NextEnc ==
    \/ StartOnce(MainCaller)
    \/ StopCall
    \/ CallEncoder(MainThread)
    \/ \E p \in Producers : Put(p)
    \/ \E p \in Producers : BypassWrite(p)
    \/ \E p \in Producers : BypassFail(p)
    \/ Loop
    \/ \E t \in Callers : WriteFail(t)
    \/ Tick

EncSpec == InitEnc /\ [][NextEnc]_vars

\* The main thread calling send() until stop() is called and not after it (a
\* send() under way when stop() is called goes on: send() never reads __stop),
\* over a transport whose writes succeed, with a scheduler that keeps running
\* the started thread and a clock that keeps advancing.
InitLive == Construct(MaxLiveCalls)

NextLive ==
    \/ StartOnce(MainCaller)
    \/ StopCall
    \/ ~stopFlag /\ CallSend(MainThread)
    \/ \E p \in Producers : Put(p)
    \/ \E p \in Producers : BypassWrite(p)
    \/ Loop
    \/ Tick

LiveSpec == InitLive /\ [][NextLive]_vars /\ WF_vars(Loop) /\ WF_vars(Tick)

\* One encoder call by the main thread, over its whole range of arguments,
\* on a channel that is started and whose transport takes every write.
InitOne == Construct(1)

NextCharPosition ==
    \/ StartOnce(MainCaller)
    \/ CallCharPosition(MainThread)
    \/ \E p \in Producers : Put(p)
    \/ \E p \in Producers : BypassWrite(p)
    \/ Loop
    \/ Tick

CharPositionSpec == InitOne /\ [][NextCharPosition]_vars

NextBacklight ==
    \/ StartOnce(MainCaller)
    \/ CallBacklight(MainThread)
    \/ \E p \in Producers : Put(p)
    \/ \E p \in Producers : BypassWrite(p)
    \/ Loop
    \/ Tick

BacklightSpec == InitOne /\ [][NextBacklight]_vars

\* The main thread sending, start() called once and stop() any number of
\* times, the calls of stop() counted.
NextStop ==
    \/ StartOnce(MainCaller)
    \/ CountedStop
    \/ CallSend(MainThread)
    \/ \E p \in Producers : Put(p)
    \/ \E p \in Producers : BypassWrite(p)
    \/ \E p \in Producers : BypassFail(p)
    \/ Loop
    \/ \E t \in Callers : WriteFail(t)
    \/ Tick

StopSpec == InitLive /\ [][NextStop]_vars

\* The main thread sending, with start() called any number of times by two
\* threads whose calls can overlap, and stop().
NextLife ==
    \/ \E c \in Callers : Start(c)
    \/ StopCall
    \/ CallSend(MainThread)
    \/ \E p \in Producers : Put(p)
    \/ \E p \in Producers : BypassWrite(p)
    \/ \E p \in Producers : BypassFail(p)
    \/ Loop
    \/ \E t \in Callers : WriteFail(t)
    \/ Tick

LifeSpec == InitLive /\ [][NextLife]_vars

\* ------------------------------------------------------------- properties
\* The bytes written to the transport, in order, without their writer.
Stream == [k \in 1..Len(transport) |-> transport[k].byte]

\* C1: with buffer_size > 0 the queue never holds more than buffer_size bytes,
\* whatever the producers and the thread do.
BoundedQueue == buffer_size > 0 => Len(queue) <= buffer_size

\* a producer stands blocked in put() on a full queue
FullQueueBlocksPut ==
    /\ buffer_size > 0
    /\ Len(queue) = buffer_size
    /\ \E p \in Producers : pcP[p] = "put"

\* C2: a drain pass writes at most buffer_size bytes (x counts them and is reset
\* only when a pass starts), and a pass starts no sooner than heartbeat after
\* the start of the pass before it, also when that pass overran the heartbeat.
PacedPasses ==
    /\ [](buffer_size > 0 => \A t \in Callers : x[t] <= buffer_size)
    /\ [][/\ (buffer_size > 0 /\ transport' # transport)
             => \E t \in Callers :
                    /\ transport' = Append(transport, [byte |-> d[t], by |-> "run"])
                    /\ x'[t] = x[t] + 1
                    /\ x'[t] <= buffer_size
          /\ \A t \in Callers :
                 /\ x'[t] < x[t] => (pc[t] = "top" /\ x'[t] = 0)
                 /\ (pc[t] \in {"beat", "sleep"} /\ pc'[t] = "top")
                        => elapsed[t] >= heartbeat]_vars

\* a pass that wrote a full quantum and overran its heartbeat, the queue still
\* non-empty: the next pass is about to start
OverrunPassRestarts ==
    /\ buffer_size > 0
    /\ heartbeat > 0
    /\ queue # <<>>
    /\ \E t \in Callers :
           /\ pc[t] = "top"
           /\ x[t] = buffer_size
           /\ elapsed[t] > heartbeat

\* C3: in queued mode the bytes of one send() call reach the transport in the
\* order given (what has been written of a call is a prefix of its data), and
\* the bytes of a producer's earlier send precede those of its later sends.
SendOrderKept ==
    buffer_size > 0 =>
        \A k \in 1..Len(transport) :
            LET t == transport[k].byte IN
            /\ t.p \in Producers
            /\ t.c \in 1..Len(log[t.p])
            /\ t.i \in 1..Len(log[t.p][t.c])
            /\ t.b = log[t.p][t.c][t.i]
            /\ t.i > 1 => \E j \in 1..(k - 1) :
                   /\ transport[j].byte.p = t.p
                   /\ transport[j].byte.c = t.c
                   /\ transport[j].byte.i = t.i - 1
            /\ \A j \in 1..(k - 1) :
                   transport[j].byte.p = t.p =>
                       \/ transport[j].byte.c < t.c
                       \/ transport[j].byte.c = t.c /\ transport[j].byte.i < t.i

\* a byte of another producer written between two bytes of one send() call
InterleavedProducers ==
    /\ buffer_size > 0
    /\ \E k \in 2..(Len(Stream) - 1) :
           /\ Stream[k - 1].p = Stream[k + 1].p
           /\ Stream[k - 1].c = Stream[k + 1].c
           /\ Stream[k].p # Stream[k - 1].p

\* C4: once stop() has been called on a started, queued channel whose transport
\* takes every write, and no producer sends after it, each byte in the queue
\* while run() is alive is eventually written, run() eventually returns, and it
\* returns only on an empty queue.
QueuedTags ==
    {Tag(p, Text(MaxLen)[i], c, i) : p \in {MainThread}, c \in 1..MaxLiveCalls, i \in 1..MaxLen}

InQueue(t) == \E k \in 1..Len(queue) : queue[k] = t
Written(t) == \E k \in 1..Len(transport) : transport[k] = [byte |-> t, by |-> "run"]

StopDrainsQueue ==
    /\ [][\A t \in Callers :
            (pc[t] # "done" /\ pc'[t] = "done" /\ buffer_size > 0)
                => (stopFlag /\ queue = <<>> /\ queue' = <<>>)]_vars
    /\ (stopFlag /\ started /\ buffer_size > 0) ~> (pc[MainCaller] = "done")
    /\ \A b \in QueuedTags :
           (stopFlag /\ started /\ buffer_size > 0 /\ pc[MainCaller] # "done" /\ InQueue(b))
               ~> Written(b)

\* C5: a send() issued after stop() is rejected: the step that issues a call
\* while the stop flag is set leaves every producer idle and enqueues and
\* writes nothing.
NoSendAfterStop ==
    [][(stopFlag /\ callsLeft' # callsLeft)
       => (/\ \A p \in Producers : pcP'[p] = "idle" /\ log'[p] = log[p]
           /\ queue' = queue
           /\ transport' = transport)]_vars

\* C6: with buffer_size = 0 the queue stays empty, no producer ever waits in
\* put(), run() returns without dequeuing or writing, every byte on the
\* transport was written by send(), and the step in which a send() returns
\* normally appends exactly its data to the transport.
BypassIsSynchronous ==
    /\ [](buffer_size = 0 =>
            /\ queue = <<>>
            /\ \A t \in Callers : d[t] = NoByte /\ pc[t] \in {"new", "boot", "del", "run", "done"}
            /\ \A p \in Producers : pcP[p] # "put"
            /\ \A k \in 1..Len(transport) : transport[k].by = "send")
    /\ [][\A p \in Producers :
            (buffer_size = 0 /\ log'[p] # log[p])
                => (pcP'[p] = "write" /\ rest'[p] = log'[p][Len(log'[p])]
                    /\ transport' = transport)]_vars
    /\ [][\A p \in Producers :
            (buffer_size = 0 /\ pcP[p] = "write" /\ pcP'[p] # "write"
             /\ result'[p] # "TransportError")
                => (/\ Len(transport') = Len(transport) + Len(rest[p])
                    /\ \A i \in 1..Len(rest[p]) :
                           /\ transport'[Len(transport) + i].byte.b = rest[p][i]
                           /\ transport'[Len(transport) + i].byte.p = p)]_vars

\* a bypass channel whose thread was started and has returned, after a send
BypassUsedAndThreadDone ==
    /\ buffer_size = 0
    /\ started
    /\ pc[MainCaller] = "done"
    /\ transport # <<>>

\* C7: while the queue is full a producer inside put() makes no progress, and
\* nothing is dequeued before start(): a send() blocked on a full queue of an
\* unstarted channel completes only after start() and a dequeue.
BlockedUntilDrained ==
    /\ []((buffer_size > 0 /\ ~started)
            => /\ transport = <<>>
               /\ \A t \in Callers : d[t] = NoByte /\ pc[t] \in {"new", "boot"})
    /\ [][\A p \in Producers :
            (buffer_size > 0 /\ Len(queue) = buffer_size /\ pcP[p] = "put")
                => (pcP'[p] = "put" /\ rest'[p] = rest[p] /\ Len(queue') <= Len(queue))]_vars

\* more bytes than the queue holds have been admitted and the send() that had
\* to wait has returned
BlockedSendCompleted ==
    /\ buffer_size > 0
    /\ started
    /\ Len(transport) + Len(queue) > buffer_size
    /\ \E p \in Producers :
           /\ pcP[p] = "idle"
           /\ result[p] = "ok"
           /\ Len(log[p]) > 0
           /\ Len(log[p][Len(log[p])]) > buffer_size

\* C8: no send() blocks forever. Once run() has ended nothing dequeues any
\* more, so a producer waiting in put() on a full queue would wait forever.
NoSendStuck ==
    ~(/\ pc[MainCaller] \in {"done", "crashed"}
      /\ buffer_size > 0
      /\ Len(queue) = buffer_size
      /\ \E p \in Producers : pcP[p] = "put")

\* C9: after a transport write has failed in run() the channel is faulted:
\* no send() is accepted, nothing is enqueued and no producer waits in put().
FaultRejectsSends ==
    [][pc[MainCaller] = "crashed"
       => (/\ pc'[MainCaller] = "crashed"
           /\ queue' = queue
           /\ \A p \in Producers : pcP[p] = "idle" => pcP'[p] = "idle")]_vars

\* C10: an encoder call that raised ValueError has entered send() not once.
RejectedCallSendsNothing ==
    \A p \in Producers : result[p] = "ValueError" => Len(log[p]) = base[p]

\* The data of each send() made so far by the API call p issued last.
SentBy(p) == SubSeq(log[p], base[p] + 1, Len(log[p]))

RECURSIVE Flat(_)
Flat(ss) == IF ss = <<>> THEN <<>> ELSE Head(ss) \o Flat(Tail(ss))

IsCharPositionCall(p) == call[p] # <<>> /\ call[p][1].f = "set_row"
CharRowOf(p) == call[p][1].v
CharColOf(p) == call[p][2].v
Returned(p) == pcP[p] = "idle" /\ call[p] # <<>>

\* C11: a set_char_position(row, col) call in range that has returned emitted
\* the bytes of set_pixel_position(col*6, (rows-row)*8 - 1): set-X, then set-Y.
CharPositionAsPixelPosition ==
    \A p \in Producers :
        (IsCharPositionCall(p) /\ Returned(p)) =>
            Flat(SentBy(p)) =
                Flat(Emitted(set_pixel_position(CharColOf(p) * CellWidth,
                                                (Rows - CharRowOf(p)) * CellHeight - 1)))

IsBacklightCall(p) == call[p] # <<>> /\ call[p][1].f = "set_backlight"
PercentOf(p) == call[p][1].v

\* C16: set_backlight(percent) with percent in 0..100 passes exactly the three
\* bytes marker, 0x02, percent to send(), once; with percent outside 0..100 it
\* raises ValueError and no byte of it reaches the queue or the transport.
BacklightEncoding ==
    \A p \in Producers :
        IsBacklightCall(p) =>
            IF PercentOf(p) >= 0 /\ PercentOf(p) <= 100
            THEN /\ result[p] \in {"none", "ok"}
                 /\ SentBy(p) = <<<<124, 2, PercentOf(p)>>>>
                 /\ \A k \in 1..Len(admitted) :
                        admitted[k].p = p => admitted[k].b = SentBy(p)[1][admitted[k].i]
                 /\ \A k \in 1..Len(transport) :
                        transport[k].byte.p = p =>
                            transport[k].byte.b = SentBy(p)[1][transport[k].byte.i]
            ELSE /\ result[p] = "ValueError"
                 /\ pcP[p] = "idle"
                 /\ SentBy(p) = <<>>
                 /\ \A k \in 1..Len(admitted) : admitted[k].p # p
                 /\ \A k \in 1..Len(transport) : transport[k].byte.p # p

\* set_backlight(100) has returned and its three bytes are on the transport
BacklightFullWritten ==
    /\ IsBacklightCall(MainThread)
    /\ PercentOf(MainThread) = 100
    /\ result[MainThread] = "ok"
    /\ Stream = <<Tag(MainThread, 124, 1, 1), Tag(MainThread, 2, 1, 2),
                  Tag(MainThread, 100, 1, 3)>>

\* C12: however many times stop() has been called, the stop flag is set as
\* after one call and stays set, and every call after the first changes
\* nothing of the channel, of the threads or of the producers.
StopIdempotent ==
    /\ [](stops > 0 => stopFlag)
    /\ [][/\ stopFlag => stopFlag'
          /\ (stops > 0 /\ stops' # stops)
                => UNCHANGED <<buffer_size, heartbeat, queue, admitted, transport, stopFlag,
                               started, pcS, startRes, limbo, pc, x, d, elapsed, sleepLeft,
                               pcP, rest, subs, log, base, call, result, callsLeft>>]_vars

\* stop() has been called twice while run() is still polling
StoppedTwiceWhileRunning ==
    /\ stops >= 2
    /\ started
    /\ pc[MainCaller] \in {"get", "empty", "write", "beat", "sleep", "top"}

\* C13: start() on a channel already started returns normally and spawns no
\* second loop: no start() call raises, and in every state at most one thread
\* is inside run().
StartIsIdempotent ==
    /\ \A c \in Callers : startRes[c] # "RuntimeError"
    /\ Cardinality({t \in Callers :
                        pc[t] \in {"run", "top", "get", "empty", "write", "beat", "sleep"}}) <= 1

\* C14: for a fixed buffer_size the transport has one writer: run() when
\* buffer_size > 0, send() when buffer_size = 0.
SingleWriter ==
    \A k \in 1..Len(transport) :
        transport[k].by = IF buffer_size > 0 THEN "run" ELSE "send"

\* a queued send has returned and run() has written to the transport
QueuedSendWrittenByRun ==
    /\ buffer_size > 0
    /\ transport # <<>>
    /\ \E p \in Producers : pcP[p] = "idle" /\ result[p] = "ok"

\* C15: no channel with heartbeat <= 0 and buffer_size > 0 runs a pacing loop.
NoLoopWithoutHeartbeat ==
    ~(/\ heartbeat <= 0
      /\ buffer_size > 0
      /\ started
      /\ pc[MainCaller] \in {"top", "get", "empty", "write", "beat", "sleep"})

\* C17: in queued mode run() returns only after a poll timed out on the empty
\* queue, with stop signalled and the queue empty; a poll that timed out without
\* stop signalled ends the pass with fewer than buffer_size bytes written and
\* goes on to the heartbeat wait, from which the next pass starts.
ReturnsOnlyOnStopAndEmpty ==
    /\ [](\A t \in Callers : (buffer_size > 0 /\ pc[t] = "done") => stopFlag)
    /\ [][\A t \in Callers :
            /\ (buffer_size > 0 /\ pc[t] # "done" /\ pc'[t] = "done")
                   => (pc[t] = "empty" /\ stopFlag /\ queue = <<>> /\ d[t] = NoByte)
            /\ (buffer_size > 0 /\ pc[t] = "empty" /\ pc'[t] # "empty" /\ ~stopFlag)
                   => /\ pc'[t] = "beat"
                      /\ x'[t] = x[t]
                      /\ x[t] < buffer_size
                      /\ transport' = transport
            /\ (buffer_size > 0 /\ pc[t] = "get" /\ pc'[t] # "get")
                   => (IF queue = <<>> THEN pc'[t] = "empty" ELSE pc'[t] = "write")
            /\ (pc[t] = "beat" /\ pc'[t] # "beat") => pc'[t] \in {"sleep", "top"}
            /\ (pc[t] = "sleep" /\ pc'[t] # "sleep") => pc'[t] = "top"]_vars

\* the byte the thread of the one start() call holds between get() and
\* write(), if any
Held == IF d[MainCaller] = NoByte THEN <<>> ELSE <<d[MainCaller]>>

\* C18 as stated: in every state of a queued channel the bytes written followed
\* by the queue contents are the bytes admitted, in admission order.
WrittenThenQueued ==
    (buffer_size > 0 /\ pc[MainCaller] # "crashed") => Stream \o queue = admitted

\* C18 amended: in every state of a queued channel whose transport has not
\* failed, the bytes written, then the byte run() has dequeued and not yet
\* written (if any), then the queue contents are the bytes admitted, in
\* admission order; each admitted byte is the next byte of its send().
Conservation ==
    (buffer_size > 0 /\ pc[MainCaller] # "crashed") =>
        /\ Stream \o Held \o queue = admitted
        /\ \A k \in 1..Len(transport) : transport[k].by = "run"
        /\ \A k \in 1..Len(admitted) :
               LET t == admitted[k] IN
               /\ t.b = log[t.p][t.c][t.i]
               /\ \A j \in 1..(k - 1) : admitted[j] # t

\* bytes written, one held by run(), one still queued
WrittenHeldQueued ==
    /\ buffer_size > 0
    /\ transport # <<>>
    /\ d[MainCaller] # NoByte
    /\ queue # <<>>

\* C19 as stated: between two bytes of one send() no byte of another send is written.
SendsContiguous ==
    buffer_size > 0 =>
        \A j \in 1..Len(transport) : \A l \in (j + 1)..Len(transport) :
            (/\ transport[j].byte.p = transport[l].byte.p
             /\ transport[j].byte.c = transport[l].byte.c) =>
                \A k \in (j + 1)..(l - 1) :
                    /\ transport[k].byte.p = transport[j].byte.p
                    /\ transport[k].byte.c = transport[j].byte.c

\* C19 amended: between two bytes of one send() no byte of another send of the
\* same producer is written; bytes of a concurrent producer's send can be.
SendsContiguousPerProducer ==
    buffer_size > 0 =>
        \A j \in 1..Len(transport) : \A l \in (j + 1)..Len(transport) :
            (/\ transport[j].byte.p = transport[l].byte.p
             /\ transport[j].byte.c = transport[l].byte.c) =>
                \A k \in (j + 1)..(l - 1) :
                    transport[k].byte.p = transport[j].byte.p
                        => transport[k].byte.c = transport[j].byte.c

\* two sends of one producer written one after the other
TwoSendsBackToBack ==
    /\ buffer_size > 0
    /\ \E k \in 2..(Len(Stream) - 1) :
           /\ Stream[k - 1].p = Stream[k].p /\ Stream[k - 1].c = Stream[k].c
           /\ Stream[k + 1].p = Stream[k].p /\ Stream[k + 1].c = Stream[k].c + 1

====
